---- MODULE Spec2Model ----
(***************************************************************************)
(* A model of the ASDD downloaders.                                        *)
(*                                                                         *)
(*   - ASDDSeleniumDownloader (src/download_asdd_selenium.py): the         *)
(*     resumable crawl over district > constituency > part with the        *)
(*     progress ledger kept in download_progress.json.                     *)
(*   - ASDDDownloader.get_page (src/download_asdd_data.py): the retrying   *)
(*     page fetch with exponential backoff.                                *)
(*   - sanitize_filename (the same code in both downloaders).              *)
(*                                                                         *)
(* Text is modelled as a sequence of one-character strings, so that the    *)
(* ledger key, the JSON document and a torn write are what the code makes  *)
(* of them and not opaque tokens.  The two field names of the ledger are   *)
(* kept as one symbol each, and the whitespace json.dump(indent=2) emits   *)
(* is left out: json.load skips it.                                        *)
(***************************************************************************)
EXTENDS Integers, Sequences, FiniteSets, TLC

VARIABLES
    \* ---- the disk and the portal (environment) ----
    file,           \* download_progress.json: [exists, text]
    reloadResets,   \* whether loading the portal page clears the form's selections
    portal,         \* which hierarchy the portal's dropdowns offer
    form,           \* the district selected in the browser form, or "none"
    \* ---- one ASDDSeleniumDownloader process ----
    pc,             \* position of the process; "off" when none is running
    progress,       \* self.progress
    stats,          \* self.stats
    districts,      \* download_all: districts
    di,             \* index of the district being processed
    constituencies, \* download_all: constituencies
    ai,             \* index of the constituency being processed
    parts,          \* download_all: parts
    pi,             \* index of the part being processed
    raised,         \* the exception propagating out of download_all, or "none"
    \* ---- history (observations, never read by the program) ----
    runs,           \* processes started so far
    exitStatus,     \* how the last process ended
    loaded,         \* the ledger as load_progress returned it in this run
    startFile,      \* the file as the constructor of this run found it
    fetched,        \* Fetcher invocations of this run, in order: [key, ok]
    visited,        \* keys of the leaves reached in this run, in order
    lastLeaf,       \* the last leaf fetched in this run: [key, ok, flushed]
    resume,         \* key of the leaf completed and flushed last before a kill
    runClean,       \* no enumeration and no fetch has failed in this run
    prevClean,      \* the previous run ended normally with runClean
    summaries,      \* calls of print_stats in this run
    enums,          \* Enumerator calls of this run, in order: [level, of, ok, n, tries]
    \* ---- one call of ASDDDownloader.get_page ----
    rpc,            \* position inside get_page
    maxRetries,     \* max_retries
    attempt,        \* the loop variable
    sleeps,         \* the durations passed to time.sleep, in order
    outcomes,       \* the outcome of each session.get call made, in order
    caller,         \* which method called get_page
    \* ---- one call of sanitize_filename ----
    label,          \* the filename passed in
    sanitized,      \* the call's result: [done, out]
    \* ---- the argument of ASDDSeleniumDownloader.download_all ----
    testDistrict,   \* test_district; <<>> is None (or the empty string)
    \* ---- ASDDDownloader.scrape_direct_links ----
    links,          \* the download links found on the page
    li              \* index of the link being processed

envVars   == <<file, reloadResets, portal, form>>
procVars  == <<pc, progress, stats, districts, di, constituencies, ai, parts, pi, raised>>
histVars  == <<runs, exitStatus, loaded, startFile, fetched, visited, lastLeaf, resume,
               runClean, prevClean, summaries, enums>>
retryVars == <<rpc, maxRetries, attempt, sleeps, outcomes, caller>>
nameVars  == <<label, sanitized>>
argVars   == <<testDistrict>>
dataVars  == <<links, li>>
vars      == <<envVars, procVars, histVars, retryVars, nameVars, argVars, dataVars>>

Range(s) == {s[i] : i \in 1..Len(s)}

(***************************************************************************)
(* Bounds of the model.                                                    *)
(***************************************************************************)
MaxRuns == 2            \* processes started on one ledger
MaxRetriesBound == 5    \* largest max_retries tried
MaxKeys == 2            \* ledger round trip: keys in one record
MaxKeyLen == 1          \* ledger round trip: longest key
MaxNameLen == 2         \* key derivation: longest district or constituency name
MaxPartLen == 1         \* key derivation: longest part label
MaxLabelLen == 3        \* sanitize_filename: longest filename drawn

(***************************************************************************)
(* JSON text of the ledger: json.dump and json.load.                       *)
(***************************************************************************)
Quote     == "\""
Backslash == "\\"

\* Faulty variant: no escaping.
EscapeCharRaw(c) == <<c>>
\* json's string escaping of one character (the two that must be escaped).
EscapeChar(c) ==
    IF c = Quote THEN <<Backslash, Quote>>
    ELSE IF c = Backslash THEN <<Backslash, Backslash>>
    ELSE <<c>>

RECURSIVE Escape(_)
Escape(s) == IF s = <<>> THEN <<>> ELSE EscapeChar(Head(s)) \o Escape(Tail(s))

DumpString(s) == <<Quote>> \o Escape(s) \o <<Quote>>

RECURSIVE DumpElements(_)
DumpElements(keys) ==
    IF keys = <<>> THEN <<>>
    ELSE IF Len(keys) = 1 THEN DumpString(keys[1])
    ELSE DumpString(Head(keys)) \o <<",">> \o DumpElements(Tail(keys))

DumpArray(keys) == <<"[">> \o DumpElements(keys) \o <<"]">>

DumpMember(name, keys) == <<Quote, name, Quote, ":">> \o DumpArray(keys)

\* A dict is written in insertion order: completed, then failed.
FieldOrder == <<"completed", "failed">>

RECURSIVE DumpMembers(_, _)
DumpMembers(rec, names) ==
    IF names = <<>> THEN <<>>
    ELSE LET rest == DumpMembers(rec, Tail(names))
         IN  IF Head(names) \notin DOMAIN rec THEN rest
             ELSE DumpMember(Head(names), rec[Head(names)])
                  \o (IF rest = <<>> THEN <<>> ELSE <<",">> \o rest)

Dump(rec) == <<"{">> \o DumpMembers(rec, FieldOrder) \o <<"}">>

Fail == [ok |-> FALSE, val |-> <<>>, next |-> 0]

At(s, i) == IF i \in 1..Len(s) THEN s[i] ELSE "EOF"

\* The characters of a string literal, from the one after the opening quote.
RECURSIVE ScanString(_, _, _)
ScanString(s, i, acc) ==
    IF i > Len(s) THEN Fail
    ELSE IF s[i] = Quote THEN [ok |-> TRUE, val |-> acc, next |-> i + 1]
    ELSE IF s[i] = Backslash
         THEN IF At(s, i + 1) \in {Quote, Backslash}
              THEN ScanString(s, i + 2, Append(acc, s[i + 1]))
              ELSE Fail
    ELSE ScanString(s, i + 1, Append(acc, s[i]))

ParseString(s, i) == IF At(s, i) = Quote THEN ScanString(s, i + 1, <<>>) ELSE Fail

RECURSIVE ParseElements(_, _, _)
ParseElements(s, i, acc) ==
    LET e == ParseString(s, i)
    IN  IF ~e.ok THEN Fail
        ELSE IF At(s, e.next) = "," THEN ParseElements(s, e.next + 1, Append(acc, e.val))
        ELSE IF At(s, e.next) = "]"
             THEN [ok |-> TRUE, val |-> Append(acc, e.val), next |-> e.next + 1]
        ELSE Fail

ParseArray(s, i) ==
    IF At(s, i) # "[" THEN Fail
    ELSE IF At(s, i + 1) = "]" THEN [ok |-> TRUE, val |-> <<>>, next |-> i + 2]
    ELSE ParseElements(s, i + 1, <<>>)

\* name : array members; a repeated name keeps the last value, as a dict does.
RECURSIVE ParseMembers(_, _, _)
ParseMembers(s, i, acc) ==
    LET n == ParseString(s, i)
    IN  IF ~n.ok \/ Len(n.val) # 1 \/ At(s, n.next) # ":" THEN Fail
        ELSE LET a == ParseArray(s, n.next + 1)
                 d == (n.val[1] :> a.val) @@ acc
             IN  IF ~a.ok THEN Fail
                 ELSE IF At(s, a.next) = "," THEN ParseMembers(s, a.next + 1, d)
                 ELSE IF At(s, a.next) = "}"
                      THEN [ok |-> TRUE, val |-> d, next |-> a.next + 1]
                 ELSE Fail

ParseObject(s, i) ==
    IF At(s, i) # "{" THEN Fail
    ELSE IF At(s, i + 1) = "}" THEN [ok |-> TRUE, val |-> <<>>, next |-> i + 2]
    ELSE ParseMembers(s, i + 1, <<>>)

\* json.load of a whole document: ok = FALSE is JSONDecodeError.
Parse(s) ==
    LET r == ParseObject(s, 1)
    IN  IF r.ok /\ r.next = Len(s) + 1 THEN [ok |-> TRUE, val |-> r.val]
        ELSE [ok |-> FALSE, val |-> <<>>]

(***************************************************************************)
(* The portal: what the three dropdowns offer.  Option values are the      *)
(* codes, option names the texts the ledger key is built from.             *)
(***************************************************************************)
Opt(v, n) == [value |-> v, name |-> n]

\* The hierarchies tried.  "small": two districts of two and one
\* constituencies, four leaves.  "cube": 2 x 2 x 2 leaves, the names not in
\* sorted order.  "drawn": two districts of one constituency of one part
\* each, every name given by the portal record (one, two: the two leaves'
\* <<district name, constituency name, part label>>).
SmallPortal == [kind |-> "small"]
CubePortal  == [kind |-> "cube"]
DrawnPortal(t1, t2) == [kind |-> "drawn", one |-> t1, two |-> t2]

DistrictOptions ==
    IF portal.kind = "small" THEN <<Opt("d1", <<"N">>), Opt("d2", <<"S">>)>>
    ELSE IF portal.kind = "cube" THEN <<Opt("w", <<"W">>), Opt("e", <<"E">>)>>
    ELSE <<Opt("k1", portal.one[1]), Opt("k2", portal.two[1])>>

ACOptions(dv) ==
    IF dv = "d1" THEN <<Opt("a1", <<"x">>), Opt("a2", <<"y">>)>>
    ELSE IF dv = "d2" THEN <<Opt("a3", <<"z">>)>>
    ELSE IF dv = "w" THEN <<Opt("wq", <<"q">>), Opt("wp", <<"p">>)>>
    ELSE IF dv = "e" THEN <<Opt("eq", <<"q">>), Opt("ep", <<"p">>)>>
    ELSE IF dv = "k1" THEN <<Opt("k1a", portal.one[2])>>
    ELSE IF dv = "k2" THEN <<Opt("k2a", portal.two[2])>>
    ELSE <<>>

PartOptions(av) ==
    IF av \in {"a1", "wq", "wp", "eq", "ep"}
    THEN <<Opt("p1", <<"1">>), Opt("p2", <<"2">>)>>
    ELSE IF av \in {"a2", "a3"} THEN <<Opt("p1", <<"1">>)>>
    ELSE IF av = "k1a" THEN <<Opt("p1", portal.one[3])>>
    ELSE IF av = "k2a" THEN <<Opt("p1", portal.two[3])>>
    ELSE <<>>

Values(opts) == {opts[i].value : i \in 1..Len(opts)}

\* str.lower on the letters the district names are written in.
LowerChar(c) ==
    IF c = "N" THEN "n" ELSE IF c = "S" THEN "s"
    ELSE IF c = "W" THEN "w" ELSE IF c = "E" THEN "e" ELSE c

Lower(s) == [i \in 1..Len(s) |-> LowerChar(s[i])]

\* sub in s, for strings.
Contains(s, sub) ==
    \E k \in 0..(Len(s) - Len(sub)) : SubSeq(s, k + 1, k + Len(sub)) = sub

\* if test_district: districts = [d for d in districts if
\* test_district.lower() in d['name'].lower()]; None and '' leave the list
\* as it is.
TestFilter(ds, t) ==
    IF t = <<>> THEN ds
    ELSE SelectSeq(ds, LAMBDA d : Contains(Lower(d.name), Lower(t)))

(***************************************************************************)
(* The ledger in memory.                                                   *)
(***************************************************************************)
EmptyProgress == [completed |-> <<>>, failed |-> <<>>]

ZeroStats == [districts |-> 0, constituencies |-> 0, parts |-> 0,
              downloaded |-> 0, failed |-> 0]

NoFile == [exists |-> FALSE, text |-> <<>>]

\* Faulty variant: every run starts from the empty record.
LoadProgressFresh(f) == [ok |-> TRUE, val |-> EmptyProgress]
\* load_progress: the file's JSON if the file exists, else the empty record;
\* ok = FALSE is the exception json.load raises.
LoadProgress(f) ==
    IF f.exists THEN Parse(f.text) ELSE [ok |-> TRUE, val |-> EmptyProgress]

\* key = f"{district_name}|{ac_name}|{part_name}"
LeafKey(dn, an, pn) == dn \o <<"|">> \o an \o <<"|">> \o pn

\* Faulty variant: the lookup reads the other list.
IsCompletedInFailed(prog, key) == key \in Range(prog["failed"])
\* key in self.progress['completed']
IsCompleted(prog, key) == key \in Range(prog["completed"])

\* Faulty variant: a failure is not recorded.
RecordOnlySuccess(prog, key, success) ==
    IF success THEN [prog EXCEPT !["completed"] = Append(@, key)] ELSE prog
\* progress['completed'].append(key) / progress['failed'].append(key)
RecordOutcome(prog, key, success) ==
    IF success THEN [prog EXCEPT !["completed"] = Append(@, key)]
    ELSE [prog EXCEPT !["failed"] = Append(@, key)]

\* Faulty variant: every return of download_part_data counts as a download.
CountAllDownloaded(st, success) == [st EXCEPT !.downloaded = @ + 1]
\* Faulty variant: a failure is counted twice.
CountFailureTwice(st, success) ==
    IF success THEN [st EXCEPT !.downloaded = @ + 1]
    ELSE [st EXCEPT !.failed = @ + 2]
\* download_part_data: stats['downloaded'] += 1 before return True,
\* stats['failed'] += 1 before each return False.
CountOutcome(st, success) ==
    IF success THEN [st EXCEPT !.downloaded = @ + 1]
    ELSE [st EXCEPT !.failed = @ + 1]

\* What a write cut short leaves of the text: nothing, or a proper prefix.
TornLengths(len) == {0, len \div 2, len - 1} \cap 0..(len - 1)
TornTexts(text) == {SubSeq(text, 1, n) : n \in TornLengths(Len(text))}

NoLeaf == [key |-> <<>>, ok |-> FALSE, flushed |-> FALSE]

\* Faulty variant: the district loop walks the list from its end.
CurDistrictReversed == districts[Len(districts) + 1 - di]
\* for district in districts
CurDistrict == districts[di]
\* for ac in constituencies
CurAC       == constituencies[ai]
\* Faulty variant: the part loop stays on the first part.
CurPartFirst == parts[1]
\* for part in parts
CurPart     == parts[pi]
CurKey      == LeafKey(CurDistrict.name, CurAC.name, CurPart.name)

RetryIdle ==
    /\ rpc = "idle" /\ maxRetries = 0 /\ attempt = 0
    /\ sleeps = <<>> /\ outcomes = <<>> /\ caller = "none"

\* No call of sanitize_filename is being looked at; download_all is called
\* without test_district; no link has been scraped.
NamesIdle ==
    /\ label = <<>>
    /\ sanitized = [done |-> FALSE, out |-> <<>>]
    /\ testDistrict = <<>>
    /\ links = <<>> /\ li = 1

\* One Enumerator call as the run's history keeps it: the level, the parent
\* option's value, whether it returned without an exception, the number of
\* options returned and the attempts made.
Enum(level, of, ok, n, tries) ==
    [level |-> level, of |-> of, ok |-> ok, n |-> n, tries |-> tries]

(***************************************************************************)
(* ASDDSeleniumDownloader                                                  *)
(***************************************************************************)
\* Everything but the ledger file, before the first process starts.
InitRest ==
    /\ form = "none"
    /\ pc = "off"
    /\ progress = EmptyProgress
    /\ stats = ZeroStats
    /\ districts = <<>> /\ di = 1
    /\ constituencies = <<>> /\ ai = 1
    /\ parts = <<>> /\ pi = 1
    /\ raised = "none"
    /\ runs = 0
    /\ exitStatus = "none"
    /\ loaded = EmptyProgress
    /\ startFile = NoFile
    /\ fetched = <<>> /\ visited = <<>>
    /\ lastLeaf = NoLeaf
    /\ resume = <<>>
    /\ runClean = FALSE /\ prevClean = FALSE
    /\ summaries = 0
    /\ enums = <<>>

\* A first run: no download_progress.json yet.
Init ==
    /\ file = NoFile
    /\ reloadResets \in BOOLEAN
    /\ portal = SmallPortal
    /\ InitRest
    /\ RetryIdle
    /\ NamesIdle

\* __init__: a new process; stats zeroed, the ledger loaded.  A load that
\* raises ends the process before download_all is called.
Construct ==
    /\ pc = "off"
    /\ runs < MaxRuns
    /\ runs' = runs + 1
    /\ resume' = IF exitStatus = "killed" /\ lastLeaf.ok /\ lastLeaf.flushed
                 THEN lastLeaf.key ELSE <<>>
    /\ prevClean' = (exitStatus = "normal" /\ runClean)
    /\ fetched' = <<>> /\ visited' = <<>>
    /\ lastLeaf' = NoLeaf
    /\ runClean' = TRUE
    /\ summaries' = 0
    /\ enums' = <<>>
    /\ stats' = ZeroStats
    /\ districts' = <<>> /\ di' = 1
    /\ constituencies' = <<>> /\ ai' = 1
    /\ parts' = <<>> /\ pi' = 1
    /\ raised' = "none"
    /\ startFile' = file
    /\ LET r == LoadProgress(file)
       IN  IF r.ok
           THEN /\ progress' = r.val
                /\ loaded' = r.val
                /\ pc' = "main"
                /\ exitStatus' = "running"
           ELSE /\ progress' = EmptyProgress
                /\ loaded' = EmptyProgress
                /\ pc' = "off"
                /\ exitStatus' = "loadError"
    /\ UNCHANGED <<envVars, retryVars, nameVars, argVars, dataVars>>

\* download_all up to the district loop: setup_driver, get_districts and
\* the test_district filter.  get_districts loads the portal page, sets
\* stats['districts'] to the number of districts it found and returns them,
\* or returns [] on any exception; its try block is entered once.
StartDownload ==
    /\ pc = "main"
    /\ \/ /\ raised' = "WebDriverException"      \* setup_driver raises
          /\ pc' = "finally"
          /\ UNCHANGED <<districts, stats, form, runClean, enums>>
       \/ /\ districts' = TestFilter(DistrictOptions, testDistrict)
          /\ stats' = [stats EXCEPT !.districts = Len(DistrictOptions)]
          /\ form' = "none"
          /\ enums' = Append(enums, Enum("districts", "none", TRUE,
                                         Len(DistrictOptions), 1))
          /\ pc' = "district"
          /\ UNCHANGED <<raised, runClean>>
       \/ /\ districts' = <<>>                    \* get_districts caught an exception
          /\ form' = "none"
          /\ enums' = Append(enums, Enum("districts", "none", FALSE, 0, 1))
          /\ runClean' = FALSE
          /\ pc' = "district"
          /\ UNCHANGED <<raised, stats>>
    /\ di' = 1
    /\ UNCHANGED <<file, reloadResets, portal, progress, constituencies, ai, parts, pi,
                   runs, exitStatus, loaded, startFile, fetched, visited, lastLeaf, resume,
                   prevClean, summaries, retryVars, nameVars, argVars, dataVars>>

\* for district in districts: get_constituencies selects the district in
\* the form and reads the constituency dropdown; [] on any exception, its
\* try block entered once.
ProcessDistrict ==
    /\ pc = "district"
    /\ di <= Len(districts)
    /\ \/ /\ constituencies' = ACOptions(CurDistrict.value)
          /\ form' = CurDistrict.value
          /\ UNCHANGED runClean
       \/ /\ constituencies' = <<>>      \* an exception; the form is not read
          /\ form' = form                 \* again before the next select
          /\ runClean' = FALSE
    /\ enums' = Append(enums, Enum("constituencies", CurDistrict.value,
                                   constituencies' # <<>>, Len(constituencies'), 1))
    /\ stats' = [stats EXCEPT !.constituencies = @ + Len(constituencies')]
    /\ ai' = 1
    /\ pc' = "ac"
    /\ UNCHANGED <<file, reloadResets, portal, progress, districts, di, parts, pi, raised,
                   runs, exitStatus, loaded, startFile, fetched, visited, lastLeaf, resume,
                   prevClean, summaries, retryVars, nameVars, argVars, dataVars>>

\* The district loop is exhausted: on to the finally clause.
EndDistricts ==
    /\ pc = "district"
    /\ di > Len(districts)
    /\ pc' = "finally"
    /\ UNCHANGED <<envVars, progress, stats, districts, di, constituencies, ai,
                   parts, pi, raised, histVars, retryVars, nameVars, argVars, dataVars>>

\* for ac in constituencies: get_parts selects the constituency in the form
\* (an option that is not there raises) and reads the part dropdown; [] on
\* any exception, its try block entered once.
ProcessAC ==
    /\ pc = "ac"
    /\ ai <= Len(constituencies)
    /\ \/ /\ CurAC.value \in Values(ACOptions(form))
          /\ parts' = PartOptions(CurAC.value)
          /\ UNCHANGED runClean
       \/ /\ parts' = <<>>
          /\ runClean' = FALSE
    /\ enums' = Append(enums, Enum("parts", CurAC.value, parts' # <<>>, Len(parts'), 1))
    /\ stats' = [stats EXCEPT !.parts = @ + Len(parts')]
    /\ pi' = 1
    /\ pc' = "part"
    /\ UNCHANGED <<envVars, progress, districts, di, constituencies, ai, raised,
                   runs, exitStatus, loaded, startFile, fetched, visited, lastLeaf, resume,
                   prevClean, summaries, retryVars, nameVars, argVars, dataVars>>

\* Faulty variant: a district without constituencies ends the district loop.
EndACsBreak ==
    /\ pc = "ac"
    /\ ai > Len(constituencies)
    /\ IF constituencies = <<>>
       THEN di' = di /\ pc' = "finally"
       ELSE di' = di + 1 /\ pc' = "district"
    /\ UNCHANGED <<envVars, progress, stats, districts, constituencies, ai,
                   parts, pi, raised, histVars, retryVars, nameVars, argVars, dataVars>>
\* The constituency loop of a district is exhausted: next district.
EndACs ==
    /\ pc = "ac"
    /\ ai > Len(constituencies)
    /\ di' = di + 1
    /\ pc' = "district"
    /\ UNCHANGED <<envVars, progress, stats, districts, constituencies, ai,
                   parts, pi, raised, histVars, retryVars, nameVars, argVars, dataVars>>

\* Faulty variant: a skipped part is counted as downloaded.
SkipPartCounted ==
    /\ pc = "part"
    /\ pi <= Len(parts)
    /\ "completed" \in DOMAIN progress
    /\ IsCompleted(progress, CurKey)
    /\ visited' = Append(visited, CurKey)
    /\ stats' = [stats EXCEPT !.downloaded = @ + 1]
    /\ pi' = pi + 1
    /\ UNCHANGED <<envVars, pc, progress, districts, di, constituencies, ai,
                   parts, raised, runs, exitStatus, loaded, startFile, fetched, lastLeaf,
                   resume, runClean, prevClean, summaries, enums, retryVars, nameVars, argVars, dataVars>>
\* A part whose key is in completed: continue.
SkipPart ==
    /\ pc = "part"
    /\ pi <= Len(parts)
    /\ "completed" \in DOMAIN progress
    /\ IsCompleted(progress, CurKey)
    /\ visited' = Append(visited, CurKey)
    /\ pi' = pi + 1
    /\ UNCHANGED <<envVars, pc, progress, stats, districts, di, constituencies, ai,
                   parts, raised, runs, exitStatus, loaded, startFile, fetched, lastLeaf,
                   resume, runClean, prevClean, summaries, enums, retryVars, nameVars, argVars, dataVars>>

\* A part whose key is not in completed: download_part_data, which tries
\* the download once and counts the outcome in stats, then the append to
\* completed or failed.
FetchPart ==
    /\ pc = "part"
    /\ pi <= Len(parts)
    /\ "completed" \in DOMAIN progress
    /\ ~IsCompleted(progress, CurKey)
    /\ \E success \in BOOLEAN :
         /\ stats' = CountOutcome(stats, success)
         /\ fetched' = Append(fetched, [key |-> CurKey, ok |-> success])
         /\ visited' = Append(visited, CurKey)
         /\ runClean' = (runClean /\ success)
         /\ IF (IF success THEN "completed" ELSE "failed") \in DOMAIN progress
            THEN /\ progress' = RecordOutcome(progress, CurKey, success)
                 /\ lastLeaf' = [key |-> CurKey, ok |-> success, flushed |-> FALSE]
                 /\ pc' = "save"
                 /\ UNCHANGED raised
            ELSE /\ raised' = "KeyError"
                 /\ pc' = "finally"
                 /\ UNCHANGED <<progress, lastLeaf>>
    /\ UNCHANGED <<envVars, districts, di, constituencies, ai, parts, pi,
                   runs, exitStatus, loaded, startFile, resume, prevClean, summaries, enums, retryVars, nameVars, argVars, dataVars>>

\* self.progress['completed'] of a ledger that has no such field.
PartKeyError ==
    /\ pc = "part"
    /\ pi <= Len(parts)
    /\ "completed" \notin DOMAIN progress
    /\ raised' = "KeyError"
    /\ pc' = "finally"
    /\ UNCHANGED <<envVars, progress, stats, districts, di, constituencies, ai,
                   parts, pi, histVars, retryVars, nameVars, argVars, dataVars>>

\* save_progress, first half: open(progress_file, 'w') truncates the file.
\* (An OSError from open or from the write would propagate to the finally
\* clause as the reload's exception does; it leaves the file in no state a
\* kill does not, and is left out.)
SaveOpen ==
    /\ pc = "save"
    /\ file' = [exists |-> TRUE, text |-> <<>>]
    /\ pc' = "write"
    /\ UNCHANGED <<reloadResets, portal, form, progress, stats, districts, di,
                   constituencies, ai, parts, pi, raised, histVars, retryVars, nameVars, argVars, dataVars>>

\* save_progress, second half: json.dump and the close that flushes it; then
\* the next part.
SaveWrite ==
    /\ pc = "write"
    /\ file' = [exists |-> TRUE, text |-> Dump(progress)]
    /\ lastLeaf' = [lastLeaf EXCEPT !.flushed = TRUE]
    /\ pi' = pi + 1
    /\ pc' = "part"
    /\ UNCHANGED <<reloadResets, portal, form, progress, stats, districts, di,
                   constituencies, ai, parts, raised, runs, exitStatus, loaded,
                   startFile, fetched, visited, resume, runClean, prevClean,
                   summaries, enums, retryVars, nameVars, argVars, dataVars>>

\* The part loop is exhausted: driver.get(self.url), then the next
\* constituency.
ReloadPage ==
    /\ pc = "part"
    /\ pi > Len(parts)
    /\ \/ /\ form' = IF reloadResets THEN "none" ELSE form
          /\ ai' = ai + 1
          /\ pc' = "ac"
          /\ UNCHANGED raised
       \/ /\ raised' = "WebDriverException"
          /\ pc' = "finally"
          /\ UNCHANGED <<form, ai>>
    /\ UNCHANGED <<file, reloadResets, portal, progress, stats, districts, di,
                   constituencies, parts, pi, histVars, retryVars, nameVars, argVars, dataVars>>

\* finally: close_driver and print_stats; the process ends, with the
\* exception if one is propagating.
Finally ==
    /\ pc = "finally"
    /\ summaries' = summaries + 1
    /\ exitStatus' = IF raised = "none" THEN "normal" ELSE "exception"
    /\ form' = "none"
    /\ pc' = "off"
    /\ UNCHANGED <<file, reloadResets, portal, progress, stats, districts, di,
                   constituencies, ai, parts, pi, raised, runs, loaded, startFile, fetched,
                   visited, lastLeaf, resume, runClean, prevClean, enums, retryVars,
                   nameVars, argVars, dataVars>>

\* The process is terminated from outside: its memory is gone (the ledger
\* it held and the last leaf it fetched are kept as observations).  Inside
\* save_progress the file was truncated and holds whatever part of the text
\* reached it.
Kill ==
    /\ pc # "off"
    /\ IF pc = "write"
       THEN \E t \in TornTexts(Dump(progress)) : file' = [exists |-> TRUE, text |-> t]
       ELSE UNCHANGED file
    /\ exitStatus' = "killed"
    /\ pc' = "off"
    /\ form' = "none"
    /\ stats' = ZeroStats
    /\ districts' = <<>> /\ di' = 1
    /\ constituencies' = <<>> /\ ai' = 1
    /\ parts' = <<>> /\ pi' = 1
    /\ raised' = "none"
    /\ loaded' = EmptyProgress
    /\ startFile' = NoFile
    /\ fetched' = <<>> /\ visited' = <<>>
    /\ resume' = <<>>
    /\ runClean' = FALSE /\ prevClean' = FALSE
    /\ summaries' = 0
    /\ enums' = <<>>
    /\ UNCHANGED <<reloadResets, portal, progress, runs, lastLeaf, retryVars, nameVars, argVars, dataVars>>

Next ==
    \/ Construct
    \/ StartDownload
    \/ ProcessDistrict
    \/ EndDistricts
    \/ ProcessAC
    \/ EndACs
    \/ SkipPart
    \/ FetchPart
    \/ SaveOpen
    \/ SaveWrite
    \/ ReloadPage
    \/ Finally
    \/ Kill

Spec == Init /\ [][Next]_vars

(***************************************************************************)
(* Runs that start from a ledger file somebody else left behind: absent,   *)
(* well formed, cut short, or JSON of another shape.                       *)
(***************************************************************************)
SomeKey == LeafKey(<<"N">>, <<"x">>, <<"1">>)

PriorTexts ==
    { Dump(EmptyProgress),
      Dump([completed |-> <<SomeKey>>, failed |-> <<>>]),
      Dump("completed" :> <<>>),                        \* no "failed" field
      Dump(<<>>),                                       \* {}
      <<>>,                                             \* an empty file
      SubSeq(Dump(EmptyProgress), 1, Len(Dump(EmptyProgress)) - 1) }

PriorFiles == {NoFile} \cup {[exists |-> TRUE, text |-> t] : t \in PriorTexts}

InitLoad ==
    /\ file \in PriorFiles
    /\ reloadResets \in BOOLEAN
    /\ portal = SmallPortal
    /\ InitRest
    /\ RetryIdle
    /\ NamesIdle

NextLoad == Next \/ PartKeyError

SpecLoad == InitLoad /\ [][NextLoad]_vars

(***************************************************************************)
(* The ledger alone: save_progress then load_progress of any record.       *)
(***************************************************************************)
KeyChars == {"a", "|", Quote, Backslash}

SeqsUpTo(S, n) == UNION {[1..m -> S] : m \in 0..n}

LedgerKeys == SeqsUpTo(KeyChars, MaxKeyLen) \ {<<>>}

LedgerRecords ==
    { [completed |-> SubSeq(ks, 1, c), failed |-> SubSeq(ks, c + 1, Len(ks))] :
        <<ks, c>> \in { <<ks, c>> \in SeqsUpTo(LedgerKeys, MaxKeys) \X (0..MaxKeys) :
                            c <= Len(ks) } }

InitLedger ==
    /\ file = NoFile
    /\ reloadResets = TRUE
    /\ portal = SmallPortal
    /\ InitRest
    /\ RetryIdle
    /\ NamesIdle

\* A downloader whose ledger holds some record.
LedgerHold ==
    /\ pc = "off" /\ runs = 0 /\ exitStatus = "none"
    /\ \E r \in LedgerRecords : progress' = r
    /\ exitStatus' = "held"
    /\ UNCHANGED <<envVars, pc, stats, districts, di, constituencies, ai, parts, pi,
                   raised, runs, loaded, startFile, fetched, visited, lastLeaf,
                   resume, runClean, prevClean, summaries, enums, retryVars, nameVars, argVars, dataVars>>

\* save_progress, whole.
LedgerSave ==
    /\ exitStatus = "held"
    /\ file' = [exists |-> TRUE, text |-> Dump(progress)]
    /\ exitStatus' = "saved"
    /\ UNCHANGED <<reloadResets, portal, form, procVars, runs, loaded, startFile, fetched,
                   visited, lastLeaf, resume, runClean, prevClean, summaries, enums,
                   retryVars, nameVars, argVars, dataVars>>

\* load_progress of what was saved.
LedgerLoad ==
    /\ exitStatus = "saved"
    /\ LET r == LoadProgress(file)
       IN  IF r.ok THEN loaded' = r.val /\ exitStatus' = "reloaded"
           ELSE loaded' = EmptyProgress /\ exitStatus' = "loadError"
    /\ UNCHANGED <<envVars, procVars, runs, startFile, fetched, visited, lastLeaf,
                   resume, runClean, prevClean, summaries, enums, retryVars, nameVars, argVars, dataVars>>

NextLedger == LedgerHold \/ LedgerSave \/ LedgerLoad

SpecLedger == InitLedger /\ [][NextLedger]_vars

(***************************************************************************)
(* The leaves of the portal in traversal order.                            *)
(***************************************************************************)
RECURSIVE Concat(_)
Concat(ss) == IF ss = <<>> THEN <<>> ELSE Head(ss) \o Concat(Tail(ss))

LeavesOfAC(d, a) ==
    [i \in 1..Len(PartOptions(a.value)) |->
        LeafKey(d.name, a.name, PartOptions(a.value)[i].name)]

LeavesOfDistrict(d) ==
    Concat([j \in 1..Len(ACOptions(d.value)) |-> LeavesOfAC(d, ACOptions(d.value)[j])])

LeafOrder ==
    Concat([i \in 1..Len(DistrictOptions) |-> LeavesOfDistrict(DistrictOptions[i])])

\* The leaf after the one with this key, <<>> after the last.
NextLeaf(key) ==
    LET order == LeafOrder
    IN  IF \E i \in 1..(Len(order) - 1) : order[i] = key
        THEN order[(CHOOSE i \in 1..(Len(order) - 1) : order[i] = key) + 1]
        ELSE <<>>

FetchedKeys == {fetched[i].key : i \in 1..Len(fetched)}

Field(rec, name) == IF name \in DOMAIN rec THEN rec[name] ELSE <<>>

NoDuplicates(seq) == \A i, j \in 1..Len(seq) : seq[i] = seq[j] => i = j

IsPrefix(a, b) == Len(a) <= Len(b) /\ SubSeq(b, 1, Len(a)) = a

(***************************************************************************)
(* Claims                                                                  *)
(***************************************************************************)

\* C1: the Fetcher is never invoked for a leaf whose key is in completed
\* when the leaf is reached, in any run on the ledger; and a run that
\* follows a run in which every enumeration and every fetch succeeded
\* makes no Fetcher invocation at all.
C1_NoFetchOfCompleted ==
    /\ [][Len(fetched') = Len(fetched) + 1
            => fetched'[Len(fetched')].key \notin Range(Field(progress, "completed"))]_vars
    /\ [](prevClean => fetched = <<>>)

\* C1 witness: the second run after a clean run of all four leaves has
\* reached every leaf again and ended without one fetch.
C1_Witness ==
    /\ prevClean /\ pc = "off" /\ exitStatus = "normal"
    /\ Len(visited) = Len(LeafOrder)
    /\ fetched = <<>>

\* C2: in the run restarted after a kill that came after leaf N was fetched
\* with success and the ledger flushed, leaf N is not fetched, and leaf N+1
\* (still to do: not completed by an earlier run) is fetched when the run
\* reaches it.
C2_ResumeAtNext ==
    resume # <<>> =>
        /\ resume \notin FetchedKeys
        /\ NextLeaf(resume) \in Range(visited)
             => \/ NextLeaf(resume) \in FetchedKeys
                \/ NextLeaf(resume) \in Range(loaded["completed"])

\* C2 witness: the restarted run skipped leaf N and fetched leaf N+1.
C2_Witness ==
    /\ resume # <<>>
    /\ resume \in Range(visited)
    /\ resume \notin FetchedKeys
    /\ NextLeaf(resume) \in FetchedKeys

\* A Fetcher invocation is about to start.
FetchStarts ==
    /\ pc = "part" /\ pi <= Len(parts)
    /\ CurKey \notin Range(Field(progress, "completed"))

\* C3: whenever a Fetcher invocation starts, the ledger on disk loads to the
\* ledger in memory, and that ledger records the outcome of every leaf
\* fetched earlier in the run.
C3_FlushedBeforeNextLeaf ==
    FetchStarts =>
        /\ LoadProgress(file) = [ok |-> TRUE, val |-> progress]
        /\ \A i \in 1..Len(fetched) :
             fetched[i].key \in Range(progress[IF fetched[i].ok THEN "completed"
                                                ELSE "failed"])

\* C3 witness: a fetch starts after one leaf succeeded and one failed in
\* this run.
C3_Witness ==
    /\ FetchStarts
    /\ \E i, j \in 1..Len(fetched) : fetched[i].ok /\ ~fetched[j].ok

\* C4: after a kill at any point the ledger on disk can be loaded and holds
\* the outcome of every leaf finished before the kill, but for at most the
\* one in flight.
C4_KilledRunLoads ==
    exitStatus = "killed" =>
        LET r == LoadProgress(file)
        IN  /\ r.ok
            /\ IsPrefix(r.val["completed"], progress["completed"])
            /\ IsPrefix(r.val["failed"], progress["failed"])
            /\ Len(progress["completed"]) + Len(progress["failed"])
                 <= Len(r.val["completed"]) + Len(r.val["failed"]) + 1

\* C5: completed and failed share no key, and every leaf the Fetcher has
\* returned for is in exactly one of them.
C5_Partition ==
    /\ Range(progress["completed"]) \cap Range(progress["failed"]) = {}
    /\ \A k \in FetchedKeys :
         k \in Range(progress["completed"]) \cup Range(progress["failed"])

\* C6: neither completed nor failed holds a key twice.
C6_NoKeyTwice ==
    /\ NoDuplicates(progress["completed"])
    /\ NoDuplicates(progress["failed"])

\* The file the run started from is a ledger: absent, or JSON with the two
\* lists.
WellFormed(f) ==
    \/ ~f.exists
    \/ /\ Parse(f.text).ok
       /\ DOMAIN Parse(f.text).val = {"completed", "failed"}

\* C7: with no file the run starts from the empty record; with a file that
\* is unreadable or malformed the run makes no Fetcher invocation and
\* leaves the file as it was.
C7_LoadContract ==
    /\ (pc # "off" /\ ~startFile.exists) => loaded = EmptyProgress
    /\ (runs > 0 /\ ~WellFormed(startFile)) =>
           /\ fetched = <<>>
           /\ file = startFile

\* C8: a record saved and loaded back is the same record: the same
\* completed keys and the same failed keys.
C8_RoundTrip ==
    /\ exitStatus # "loadError"
    /\ exitStatus = "reloaded" =>
         /\ loaded = progress
         /\ Range(loaded["completed"]) = Range(progress["completed"])
         /\ Range(loaded["failed"]) = Range(progress["failed"])

\* C8 witness: a record of several keys, one of them with a quote in it,
\* came back.
C8_Witness ==
    /\ exitStatus = "reloaded"
    /\ Len(progress["completed"]) + Len(progress["failed"]) >= 2
    /\ \E k \in Range(progress["completed"]) : Quote \in Range(k)

\* C9: a run whose district enumeration came back empty makes no Fetcher
\* invocation and does not end as a normal completion.
C9_DiscoveryFailureIsFatal ==
    /\ (pc \notin {"off", "main"} /\ districts = <<>>) => fetched = <<>>
    /\ (pc = "off" /\ exitStatus = "normal") => districts # <<>>

(***************************************************************************)
(* ASDDDownloader.get_page: the retrying fetch.                            *)
(***************************************************************************)
DefaultMaxRetries == 3

\* Faulty variant: the exponent is off by one.
BackoffFromTwo(a) == 2 ^ (a + 1)
\* time.sleep(2 ** attempt)
Backoff(a) == 2 ^ a

\* if attempt < max_retries - 1: sleep, else: raise
SleepsAfter(a, max) == a < max - 1

Callers == {"get_districts", "download_file", "scrape_direct_links"}

\* get_page(url) from one of its call sites, or with max_retries given.
GetPageCall ==
    /\ rpc = "idle"
    /\ \E c \in Callers, m \in {DefaultMaxRetries} \cup 0..MaxRetriesBound :
         /\ caller' = c
         /\ maxRetries' = m
         /\ rpc' = IF m = 0 THEN "returnedNone" ELSE "try"
    /\ attempt' = 0
    /\ UNCHANGED <<envVars, procVars, histVars, nameVars, argVars, dataVars, sleeps, outcomes>>

\* One pass of the try block: session.get and raise_for_status.
GetPageTry ==
    /\ rpc = "try"
    /\ \E success \in BOOLEAN :
         /\ outcomes' = Append(outcomes, success)
         /\ rpc' = IF success THEN "returned" ELSE "except"
    /\ UNCHANGED <<envVars, procVars, histVars, nameVars, argVars, dataVars, maxRetries, attempt, sleeps, caller>>

\* Faulty variant: the except block backs off and goes round again whatever
\* the attempt's number.
GetPageExceptAgain ==
    /\ rpc = "except"
    /\ sleeps' = Append(sleeps, Backoff(attempt))
    /\ attempt' = attempt + 1
    /\ rpc' = "try"
    /\ UNCHANGED <<envVars, procVars, histVars, nameVars, argVars, dataVars, maxRetries, outcomes, caller>>

\* The except block: back off and go round again, or re-raise.
GetPageExcept ==
    /\ rpc = "except"
    /\ IF SleepsAfter(attempt, maxRetries)
       THEN /\ sleeps' = Append(sleeps, Backoff(attempt))
            /\ IF attempt + 1 < maxRetries
               THEN attempt' = attempt + 1 /\ rpc' = "try"
               ELSE attempt' = attempt /\ rpc' = "returnedNone"
       ELSE /\ rpc' = "raised"
            /\ UNCHANGED <<sleeps, attempt>>
    /\ UNCHANGED <<envVars, procVars, histVars, nameVars, argVars, dataVars, maxRetries, outcomes, caller>>

NextRetry == GetPageCall \/ GetPageTry \/ GetPageExcept

\* No downloader runs; get_page is called on its own.
InitRetry ==
    /\ file = NoFile
    /\ reloadResets = TRUE
    /\ portal = SmallPortal
    /\ InitRest
    /\ RetryIdle
    /\ NamesIdle

SpecRetry == InitRetry /\ [][NextRetry]_vars

\* C10: get_page makes at most max_retries attempts, stops at the first
\* success, sleeps 1 after the first failure and twice the previous sleep
\* after each later one, does not sleep after the last failed attempt, and
\* raises only after exactly max_retries failed attempts.
C10_RetryBackoff ==
    /\ Len(outcomes) <= maxRetries
    /\ \A i \in 1..Len(outcomes) : outcomes[i] => i = Len(outcomes) /\ rpc = "returned"
    /\ rpc = "returned" => outcomes[Len(outcomes)] /\ Len(sleeps) = Len(outcomes) - 1
    /\ rpc = "try" => Len(sleeps) = Len(outcomes)
    /\ \A i \in 1..Len(sleeps) : sleeps[i] = IF i = 1 THEN 1 ELSE 2 * sleeps[i - 1]
    /\ rpc = "raised" =>
         /\ Len(outcomes) = maxRetries
         /\ \A i \in 1..Len(outcomes) : ~outcomes[i]
         /\ Len(sleeps) = maxRetries - 1
    /\ rpc = "returnedNone" => maxRetries = 0

\* C10 witness: the default three attempts all failed, with sleeps of 1 and
\* 2 between them.
C10_Witness ==
    /\ rpc = "raised"
    /\ maxRetries = DefaultMaxRetries
    /\ outcomes = <<FALSE, FALSE, FALSE>>
    /\ sleeps = <<1, 2>>

(***************************************************************************)
(* Claims about retries in the crawl.                                      *)
(***************************************************************************)
\* Fetcher invocations of this run for the leaf with this key.
Attempts(key) == Cardinality({i \in 1..Len(fetched) : fetched[i].key = key})

\* C11: a leaf whose fetch fails is fetched again until a fetch succeeds or
\* the maximum number of attempts (3) is used up: no leaf is fetched after
\* a success or more than 3 times, and a leaf is put in failed only after
\* exactly 3 failed attempts (so one that fails twice and succeeds the
\* third time ends in completed).
C11_FetchRetried ==
    /\ \A k \in FetchedKeys : Attempts(k) <= DefaultMaxRetries
    /\ \A i \in 1..Len(fetched) :
         /\ fetched[i].ok =>
               \A j \in (i + 1)..Len(fetched) : fetched[j].key # fetched[i].key
         /\ (~fetched[i].ok /\ fetched[i].key \in Range(Field(progress, "failed"))) =>
               Attempts(fetched[i].key) = DefaultMaxRetries

\* C12: an enumeration of districts, constituencies or parts is reported
\* failed only after the maximum number of attempts (3) has been made.
C12_EnumerationRetried ==
    \A i \in 1..Len(enums) : ~enums[i].ok => enums[i].tries = DefaultMaxRetries

(***************************************************************************)
(* Claims about failures that do not end the run.                          *)
(***************************************************************************)
FailedFetches == {i \in 1..Len(fetched) : ~fetched[i].ok}

AllEnumsOk == \A i \in 1..Len(enums) : enums[i].ok

\* The run went through the whole traversal and returned.
RunReturned == pc = "off" /\ exitStatus = "normal" /\ enums # <<>>

\* C13: every failed fetch of the run has added exactly one to the failed
\* counter and put its leaf in failed, the run goes on to save the ledger
\* with no exception raised, every leaf reached so far has been fetched
\* unless it was completed, and a run whose enumerations all succeed
\* returns with every leaf of the hierarchy fetched or already completed.
C13_FailedFetchGoesOn ==
    /\ stats.failed = Cardinality(FailedFetches)
    /\ \A i \in FailedFetches : fetched[i].key \in Range(progress["failed"])
    /\ (pc = "save" /\ ~lastLeaf.ok) => raised = "none"
    /\ \A k \in Range(visited) : k \in FetchedKeys \/ k \in Range(loaded["completed"])
    /\ (RunReturned /\ AllEnumsOk) =>
          \A k \in Range(LeafOrder) : k \in FetchedKeys \/ k \in Range(loaded["completed"])

\* C13 witness: the first fetch of the run failed, and the run went on to
\* fetch every other leaf and returned.
C13_Witness ==
    /\ RunReturned /\ AllEnumsOk
    /\ Len(fetched) = Len(LeafOrder)
    /\ ~fetched[1].ok
    /\ \A i \in 2..Len(fetched) : fetched[i].ok
    /\ stats.failed = 1

\* Values of the districts whose constituency enumeration failed or came
\* back empty in this run.
SkippedDistricts ==
    {enums[i].of : i \in {j \in 1..Len(enums) :
                              enums[j].level = "constituencies" /\ enums[j].n = 0}}

OtherEnumsOk ==
    \A i \in 1..Len(enums) : enums[i].level # "constituencies" => enums[i].ok

\* Positions of the districts outside S, of their constituencies and of
\* their parts, in the portal.
DistrictsOutside(S) ==
    {i \in 1..Len(DistrictOptions) : DistrictOptions[i].value \notin S}

ACsOutside(S) ==
    UNION {{<<i, j>> : j \in 1..Len(ACOptions(DistrictOptions[i].value))} :
             i \in DistrictsOutside(S)}

PartsOutside(S) ==
    UNION {{<<ij[1], ij[2], k>> :
               k \in 1..Len(PartOptions(ACOptions(DistrictOptions[ij[1]].value)[ij[2]].value))} :
             ij \in ACsOutside(S)}

LeavesOutside(S) ==
    UNION {Range(LeavesOfDistrict(DistrictOptions[i])) : i \in DistrictsOutside(S)}

\* C14: a constituency enumeration that fails or is empty raises nothing and
\* leaves the district without leaves; and a run in which that happened for
\* exactly one district, every other enumeration succeeding, returns
\* normally with every leaf of every other district fetched or already
\* completed, and with counters that count both districts and only the
\* other district's constituencies and parts.
C14_OneDistrictSkipped ==
    /\ (pc = "ac" /\ constituencies = <<>>) => raised = "none"
    /\ \A k \in Range(visited) :
         \A i \in 1..Len(DistrictOptions) :
             k \in Range(LeavesOfDistrict(DistrictOptions[i]))
                 => DistrictOptions[i].value \notin SkippedDistricts
    /\ (RunReturned /\ Cardinality(SkippedDistricts) = 1 /\ OtherEnumsOk) =>
          /\ \A k \in LeavesOutside(SkippedDistricts) :
                k \in FetchedKeys \/ k \in Range(loaded["completed"])
          /\ stats.districts = Len(DistrictOptions)
          /\ stats.constituencies = Cardinality(ACsOutside(SkippedDistricts))
          /\ stats.parts = Cardinality(PartsOutside(SkippedDistricts))
          /\ stats.downloaded + stats.failed = Len(fetched)

\* C14 witness: the first district was skipped and the run returned with
\* the second district's leaf fetched.
C14_Witness ==
    /\ RunReturned /\ OtherEnumsOk
    /\ SkippedDistricts = {DistrictOptions[1].value}
    /\ FetchedKeys = LeavesOutside(SkippedDistricts)
    /\ stats.constituencies = 1

(***************************************************************************)
(* One run on an empty ledger over the 2 x 2 x 2 hierarchy.                *)
(***************************************************************************)
InitCube ==
    /\ file = NoFile
    /\ reloadResets \in BOOLEAN
    /\ portal = CubePortal
    /\ InitRest
    /\ RetryIdle
    /\ NamesIdle

\* The first process on the ledger.
ConstructOnce == runs = 0 /\ Construct

\* No part is skipped in a first run over distinct keys.
NextCube ==
    \/ ConstructOnce
    \/ StartDownload
    \/ ProcessDistrict
    \/ EndDistricts
    \/ ProcessAC
    \/ EndACs
    \/ FetchPart
    \/ SaveOpen
    \/ SaveWrite
    \/ ReloadPage
    \/ Finally
    \/ Kill

SpecCube == InitCube /\ [][NextCube]_vars

(***************************************************************************)
(* Claims about the counters and the traversal.                            *)
(***************************************************************************)
RECURSIVE Sum(_)
Sum(ns) == IF ns = <<>> THEN 0 ELSE Head(ns) + Sum(Tail(ns))

\* Options returned by the Enumerator calls of one level in this run.
Enumerated(level) ==
    Sum([i \in 1..Len(enums) |-> IF enums[i].level = level THEN enums[i].n ELSE 0])

\* download_all has returned or raised, print_stats done.
EndOfRun == pc = "off" /\ exitStatus \in {"normal", "exception"}

\* Leaf (D1, C2, P1) of the hierarchy.
LeafD1C2P1 ==
    LeafKey(DistrictOptions[1].name,
            ACOptions(DistrictOptions[1].value)[2].name,
            PartOptions(ACOptions(DistrictOptions[1].value)[2].value)[1].name)

\* C15: at the end of a run started without a ledger file, districts,
\* constituencies and parts equal the numbers of options enumerated,
\* downloaded and failed equal the numbers of fetches that succeeded and
\* failed, and the ledger, in memory and on disk, holds exactly the
\* succeeded keys as completed and the failed keys as failed, as many as the
\* counters say; with every enumeration of the 2 x 2 x 2 hierarchy
\* succeeding and only leaf (D1, C2, P1) failing, that is 2, 4, 8, 7, 1 and
\* 7 completed and 1 failed keys.
C15_CountersAreTrueCounts ==
    (EndOfRun /\ ~startFile.exists) =>
        /\ stats.districts = Enumerated("districts")
        /\ stats.constituencies = Enumerated("constituencies")
        /\ stats.parts = Enumerated("parts")
        /\ stats.downloaded = Len(fetched) - Cardinality(FailedFetches)
        /\ stats.failed = Cardinality(FailedFetches)
        /\ Len(progress["completed"]) = stats.downloaded
        /\ Len(progress["failed"]) = stats.failed
        /\ Range(progress["completed"]) =
             {fetched[i].key : i \in (1..Len(fetched)) \ FailedFetches}
        /\ Range(progress["failed"]) = {fetched[i].key : i \in FailedFetches}
        /\ fetched # <<>> => LoadProgress(file) = [ok |-> TRUE, val |-> progress]
        /\ (/\ exitStatus = "normal" /\ AllEnumsOk /\ enums # <<>>
            /\ {fetched[i].key : i \in FailedFetches} = {LeafD1C2P1})
             => /\ stats = [districts |-> 2, constituencies |-> 4, parts |-> 8,
                            downloaded |-> 7, failed |-> 1]
                /\ Len(LoadProgress(file).val["completed"]) = 7
                /\ Len(LoadProgress(file).val["failed"]) = 1

\* C15 witness: the run over the 2 x 2 x 2 hierarchy has ended with only
\* leaf (D1, C2, P1) failed.
C15_Witness ==
    /\ EndOfRun /\ exitStatus = "normal" /\ AllEnumsOk
    /\ Len(fetched) = 8
    /\ {fetched[i].key : i \in FailedFetches} = {LeafD1C2P1}
    /\ stats.downloaded = 7 /\ stats.failed = 1

\* The step skips a completed part.
SkipStep ==
    /\ pc = "part" /\ pi <= Len(parts)
    /\ IsCompleted(progress, CurKey)
    /\ pc' # "off"

\* C16: the step that skips a completed part invokes no Fetcher and leaves
\* the counters, the ledger in memory and the ledger file as they were; it
\* only moves on to the next part.
C16_SkipChangesNothing ==
    [][SkipStep =>
          /\ fetched' = fetched
          /\ stats' = stats
          /\ progress' = progress
          /\ file' = file
          /\ pi' = pi + 1
          /\ <<districts, di, constituencies, ai, parts>>'
               = <<districts, di, constituencies, ai, parts>>]_vars

\* C16 witness: a part was skipped in a run that has also fetched one.
C16_Witness ==
    /\ pc = "part"
    /\ \E i \in 1..Len(visited) : visited[i] \notin FetchedKeys
    /\ fetched # <<>>

\* C17: in one run no leaf is fetched twice and no leaf that was completed
\* when the run started is fetched at all, only leaves of the hierarchy are
\* fetched, and a run whose enumerations all succeed returns with every
\* leaf that was not completed at its start fetched exactly once.
C17_FetchedExactlyOnce ==
    /\ \A k \in FetchedKeys :
         /\ Attempts(k) = 1
         /\ k \notin Range(loaded["completed"])
         /\ k \in Range(LeafOrder)
    /\ (RunReturned /\ AllEnumsOk) =>
          \A k \in Range(LeafOrder) :
              Attempts(k) = IF k \in Range(loaded["completed"]) THEN 0 ELSE 1

\* C17 witness: a run that started with some leaves completed and some not
\* has returned after enumerating everything.
C17_Witness ==
    /\ RunReturned /\ AllEnumsOk
    /\ loaded["completed"] # <<>>
    /\ fetched # <<>>
    /\ Len(visited) = Len(LeafOrder)

\* <<district position, constituency position, part position>> of every
\* leaf of the portal, and the key of the leaf at one.
LeafPositions == PartsOutside({})

KeyAt(t) ==
    LET d == DistrictOptions[t[1]]
        a == ACOptions(d.value)[t[2]]
    IN  LeafKey(d.name, a.name, PartOptions(a.value)[t[3]].name)

LexLess(s, t) ==
    \/ s[1] < t[1]
    \/ s[1] = t[1] /\ s[2] < t[2]
    \/ s[1] = t[1] /\ s[2] = t[2] /\ s[3] < t[3]

\* C18: of two fetches of a run, the earlier is of the leaf whose
\* <<district, constituency, part>> position in the enumerated lists comes
\* first lexicographically.
C18_FetchOrder ==
    \A m, n \in 1..Len(fetched) :
        m < n =>
            \E s, t \in LeafPositions :
                /\ KeyAt(s) = fetched[m].key
                /\ KeyAt(t) = fetched[n].key
                /\ LexLess(s, t)

\* C18 witness: all eight leaves were fetched, district W before district
\* E and constituency q before constituency p, as enumerated and against
\* the order of the names.
C18_Witness ==
    /\ Len(fetched) = 8
    /\ fetched[1].key = LeafKey(<<"W">>, <<"q">>, <<"1">>)
    /\ fetched[3].key = LeafKey(<<"W">>, <<"p">>, <<"1">>)
    /\ fetched[8].key = LeafKey(<<"E">>, <<"p">>, <<"2">>)

(***************************************************************************)
(* One run over two leaves of any names: what the ledger key makes of      *)
(* them.                                                                   *)
(***************************************************************************)
NameChars == {"a", "|"}

Names(n) == SeqsUpTo(NameChars, n) \ {<<>>}

\* <<district name, constituency name, part label>>
NameTriples == Names(MaxNameLen) \X Names(MaxNameLen) \X Names(MaxPartLen)

InitKey ==
    /\ file = NoFile
    /\ reloadResets = FALSE
    /\ portal \in {DrawnPortal(t1, t2) : t1 \in NameTriples, t2 \in NameTriples}
    /\ InitRest
    /\ RetryIdle
    /\ NamesIdle

NextKey ==
    \/ ConstructOnce
    \/ StartDownload
    \/ ProcessDistrict
    \/ EndDistricts
    \/ ProcessAC
    \/ EndACs
    \/ SkipPart
    \/ FetchPart
    \/ SaveOpen
    \/ SaveWrite
    \/ ReloadPage
    \/ Finally

SpecKey == InitKey /\ [][NextKey]_vars

\* C19: two leaves whose <<district name, constituency name, part label>>
\* differ get different ledger keys, whatever the names, and so in a first
\* run no leaf is skipped because the other one was completed.
C19_KeysUnambiguous ==
    (portal.kind = "drawn" /\ portal.one # portal.two) =>
        /\ NoDuplicates(visited)
        /\ Len(fetched) = Len(visited)

(***************************************************************************)
(* sanitize_filename (the same in both downloaders).                       *)
(***************************************************************************)
\* invalid_chars = '<>:"/\\|?*'
InvalidChars == <<"<", ">", ":", Quote, "/", Backslash, "|", "?", "*">>

\* What str.strip() removes, of the characters drawn.
Whitespace == {" ", "\t"}

\* Faulty variant: only the first occurrence is replaced.
ReplaceFirstChar(s, c) ==
    [i \in 1..Len(s) |->
        IF s[i] = c /\ (\A j \in 1..(i - 1) : s[j] # c) THEN "_" ELSE s[i]]
\* filename.replace(char, '_')
ReplaceChar(s, c) == [i \in 1..Len(s) |-> IF s[i] = c THEN "_" ELSE s[i]]

\* for char in invalid_chars: filename = filename.replace(char, '_')
RECURSIVE ReplaceEach(_, _)
ReplaceEach(s, chars) ==
    IF chars = <<>> THEN s ELSE ReplaceEach(ReplaceChar(s, Head(chars)), Tail(chars))

RECURSIVE LStrip(_)
LStrip(s) == IF s # <<>> /\ Head(s) \in Whitespace THEN LStrip(Tail(s)) ELSE s

RECURSIVE RStrip(_)
RStrip(s) ==
    IF s # <<>> /\ s[Len(s)] \in Whitespace THEN RStrip(SubSeq(s, 1, Len(s) - 1)) ELSE s

\* filename.strip()
Strip(s) == RStrip(LStrip(s))

SanitizeFilename(filename) == Strip(ReplaceEach(filename, InvalidChars))

LabelChars == Range(InvalidChars) \cup {"a", "_"} \cup Whitespace

\* AC: 12/"Test", bare and with blanks around it.
ExampleLabel ==
    <<"A", "C", ":", " ", "1", "2", "/", Quote, "T", "e", "s", "t", Quote>>

PaddedLabel == <<" ", "\t">> \o ExampleLabel \o <<" ">>

InitSanitize ==
    /\ file = NoFile
    /\ reloadResets = TRUE
    /\ portal = SmallPortal
    /\ InitRest
    /\ RetryIdle
    /\ label \in SeqsUpTo(LabelChars, MaxLabelLen) \cup {ExampleLabel, PaddedLabel}
    /\ sanitized = [done |-> FALSE, out |-> <<>>]
    /\ testDistrict = <<>>
    /\ links = <<>> /\ li = 1

\* sanitize_filename(label)
SanitizeCall ==
    /\ ~sanitized.done
    /\ sanitized' = [done |-> TRUE, out |-> SanitizeFilename(label)]
    /\ UNCHANGED <<envVars, procVars, histVars, retryVars, label, argVars, dataVars>>

NextSanitize == SanitizeCall

SpecSanitize == InitSanitize /\ [][NextSanitize]_vars

\* The characters a filename must not keep.
UnsafeChars == {"<", ">", ":", "\"", "/", "\\", "|", "?", "*"}

\* Each unsafe character replaced by the placeholder, every other kept.
Replaced(s) == [i \in 1..Len(s) |-> IF s[i] \in UnsafeChars THEN "_" ELSE s[i]]

\* From the first to the last character that is not whitespace.
Trimmed(s) ==
    LET keep == {i \in 1..Len(s) : s[i] \notin Whitespace}
    IN  IF keep = {} THEN <<>>
        ELSE SubSeq(s, CHOOSE i \in keep : \A j \in keep : i <= j,
                       CHOOSE i \in keep : \A j \in keep : j <= i)

\* C20: the sanitized filename holds none of < > : " / \ | ? *, neither
\* starts nor ends with whitespace, and is the input with each of those
\* characters replaced by one placeholder character, every other character
\* kept in order, and then trimmed.
C20_Sanitized ==
    sanitized.done =>
        /\ \A i \in 1..Len(sanitized.out) : sanitized.out[i] \notin UnsafeChars
        /\ sanitized.out # <<>> =>
              /\ sanitized.out[1] \notin Whitespace
              /\ sanitized.out[Len(sanitized.out)] \notin Whitespace
        /\ sanitized.out = Trimmed(Replaced(label))

\* C20 witness: AC: 12/"Test" with blanks around it came out as
\* AC_ 12__Test_.
C20_Witness ==
    /\ sanitized.done
    /\ label = PaddedLabel
    /\ sanitized.out =
         <<"A", "C", "_", " ", "1", "2", "_", "_", "T", "e", "s", "t", "_">>


(***************************************************************************)
(* Claims about the browser form between constituencies.                   *)
(***************************************************************************)
\* get_parts is about to be called for a constituency of the district loop.
AboutToEnumerateParts == pc = "ac" /\ ai <= Len(constituencies)

\* C22: given that reloading the portal page resets the form, whenever
\* get_parts is about to be called for a constituency the form has that
\* constituency's district selected, so the constituency's option is there
\* to be selected (for the second and later constituencies of a district as
\* for the first).
C22_DistrictSelectedAtParts ==
    (reloadResets /\ AboutToEnumerateParts) =>
        /\ form = CurDistrict.value
        /\ CurAC.value \in Values(ACOptions(form))


(***************************************************************************)
(* One run restricted to a test district.                                  *)
(***************************************************************************)
\* The --test-district arguments tried: none, a district's name in another
\* case, a district's name as it is, and a name no district has.
TestDistricts == {<<>>, <<"n">>, <<"S">>, <<"x">>}

InitTest ==
    /\ file = NoFile
    /\ reloadResets \in BOOLEAN
    /\ portal = SmallPortal
    /\ InitRest
    /\ RetryIdle
    /\ label = <<>>
    /\ sanitized = [done |-> FALSE, out |-> <<>>]
    /\ testDistrict \in TestDistricts
    /\ links = <<>> /\ li = 1

NextTest ==
    \/ ConstructOnce
    \/ StartDownload
    \/ ProcessDistrict
    \/ EndDistricts
    \/ ProcessAC
    \/ EndACs
    \/ FetchPart
    \/ SaveOpen
    \/ SaveWrite
    \/ ReloadPage
    \/ Finally

SpecTest == InitTest /\ [][NextTest]_vars

\* The districts the controller's loop went over: one get_constituencies
\* call each.
DistrictsIterated ==
    {enums[i].of : i \in {j \in 1..Len(enums) : enums[j].level = "constituencies"}}

\* C23: when a Selenium run has returned and printed its summary, the
\* districts counter is the number of districts the district loop went
\* over, with or without a test district.
C23_DistrictsCounter ==
    (RunReturned /\ summaries = 1) => stats.districts = Cardinality(DistrictsIterated)


(***************************************************************************)
(* ASDDDownloader (download_asdd_data.py): the requests-based downloader.  *)
(* It keeps no ledger; every page and file goes through get_page.  pc is   *)
(* "data.main" before get_districts, "data.districts", "data.page",        *)
(* "data.linkfile" and "data.partfile" while a get_page call is running,   *)
(* "data.scrape", "data.link", "data.district", "data.ac" and "data.part"  *)
(* at the head of scrape_direct_links and of the four loops.               *)
(***************************************************************************)
\* The download links a scraped page may hold.
LinkLists == {<<>>, <<"f1">>, <<"f1", "f2">>}

\* get_page(url) with the default max_retries, from caller c.
CallGetPage(c) ==
    /\ rpc = "idle"
    /\ caller' = c
    /\ maxRetries' = DefaultMaxRetries
    /\ attempt' = 0
    /\ sleeps' = <<>>
    /\ outcomes' = <<>>
    /\ rpc' = "try"

\* get_page has returned a response or raised.
GetPageDone == rpc \in {"returned", "raised"}

\* The caller has taken get_page's result.
GetPageTaken ==
    /\ rpc' = "idle"
    /\ UNCHANGED <<maxRetries, attempt, sleeps, outcomes, caller>>

\* __init__ and main: a new process, stats zeroed.
DataConstruct ==
    /\ pc = "off"
    /\ runs < MaxRuns
    /\ runs' = runs + 1
    /\ stats' = ZeroStats
    /\ summaries' = 0
    /\ enums' = <<>>
    /\ fetched' = <<>>
    /\ raised' = "none"
    /\ exitStatus' = "running"
    /\ districts' = <<>> /\ di' = 1
    /\ constituencies' = <<>> /\ ai' = 1
    /\ parts' = <<>> /\ pi' = 1
    /\ links' = <<>> /\ li' = 1
    /\ pc' = "data.main"
    /\ UNCHANGED <<envVars, progress, loaded, startFile, visited, lastLeaf, resume,
                   runClean, prevClean, retryVars, nameVars, argVars>>

\* download_all: get_districts asks get_page for the portal page.
DataGetDistricts ==
    /\ pc = "data.main"
    /\ CallGetPage("get_districts")
    /\ pc' = "data.districts"
    /\ UNCHANGED <<envVars, progress, stats, districts, di, constituencies, ai, parts, pi,
                   raised, histVars, nameVars, argVars, dataVars>>

\* get_districts returns the dropdown's options, or [] when the dropdown is
\* not on the page or get_page raised.  No districts: download_all goes to
\* scrape_direct_links; otherwise it sets stats['districts'] and starts the
\* district loop.
DataDistrictsBack ==
    /\ pc = "data.districts"
    /\ GetPageDone
    /\ \E found \in IF rpc = "returned" THEN BOOLEAN ELSE {FALSE} :
         /\ districts' = IF found THEN DistrictOptions ELSE <<>>
         /\ enums' = Append(enums, Enum("districts", "none", found,
                                        Len(districts'), Len(outcomes)))
         /\ IF districts' = <<>>
            THEN pc' = "data.scrape" /\ UNCHANGED stats
            ELSE /\ pc' = "data.district"
                 /\ stats' = [stats EXCEPT !.districts = Len(districts')]
    /\ di' = 1
    /\ GetPageTaken
    /\ UNCHANGED <<envVars, progress, constituencies, ai, parts, pi, raised,
                   runs, exitStatus, loaded, startFile, fetched, visited, lastLeaf, resume,
                   runClean, prevClean, summaries, nameVars, argVars, dataVars>>

\* scrape_direct_links asks get_page for the portal page.
DataScrape ==
    /\ pc = "data.scrape"
    /\ CallGetPage("scrape_direct_links")
    /\ pc' = "data.page"
    /\ UNCHANGED <<envVars, progress, stats, districts, di, constituencies, ai, parts, pi,
                   raised, histVars, nameVars, argVars, dataVars>>

\* The page came: its links are found.  get_page raised, or saving the page
\* source did: the except clause logs it, scrape_direct_links returns and
\* download_all returns after it, without print_stats.
DataScrapeBack ==
    /\ pc = "data.page"
    /\ GetPageDone
    /\ \/ /\ rpc = "returned"
          /\ \E ls \in LinkLists : links' = ls
          /\ li' = 1
          /\ pc' = "data.link"
          /\ UNCHANGED exitStatus
       \/ /\ exitStatus' = "normal"
          /\ pc' = "off"
          /\ UNCHANGED <<links, li>>
    /\ GetPageTaken
    /\ UNCHANGED <<envVars, progress, stats, districts, di, constituencies, ai, parts, pi,
                   raised, runs, loaded, startFile, fetched, visited, lastLeaf, resume,
                   runClean, prevClean, summaries, enums, nameVars, argVars>>

\* for link in links: download_file asks get_page for the link's url.
DataLink ==
    /\ pc = "data.link"
    /\ li <= Len(links)
    /\ CallGetPage("download_file")
    /\ pc' = "data.linkfile"
    /\ UNCHANGED <<envVars, progress, stats, districts, di, constituencies, ai, parts, pi,
                   raised, histVars, nameVars, argVars, dataVars>>

\* download_file returns True when the response came and the file was
\* written, False when get_page or the write raised; the outcome is counted.
DataLinkBack ==
    /\ pc = "data.linkfile"
    /\ GetPageDone
    /\ \E success \in IF rpc = "returned" THEN BOOLEAN ELSE {FALSE} :
         /\ stats' = CountOutcome(stats, success)
         /\ fetched' = Append(fetched, [key |-> <<links[li]>>, ok |-> success])
    /\ li' = li + 1
    /\ pc' = "data.link"
    /\ GetPageTaken
    /\ UNCHANGED <<envVars, progress, districts, di, constituencies, ai, parts, pi,
                   raised, runs, exitStatus, loaded, startFile, visited, lastLeaf, resume,
                   runClean, prevClean, summaries, enums, nameVars, argVars, links>>

\* The link loop is exhausted: scrape_direct_links returns, and download_all
\* returns after it, without print_stats.
DataLinksEnd ==
    /\ pc = "data.link"
    /\ li > Len(links)
    /\ exitStatus' = "normal"
    /\ pc' = "off"
    /\ UNCHANGED <<envVars, progress, stats, districts, di, constituencies, ai, parts, pi,
                   raised, runs, loaded, startFile, fetched, visited, lastLeaf, resume,
                   runClean, prevClean, summaries, enums, retryVars, nameVars, argVars,
                   dataVars>>

\* for district in districts: the district folder is made (an OSError from
\* mkdir leaves download_all and main, nothing catches it), then
\* get_constituencies posts to its endpoints and returns a list or [].
DataProcessDistrict ==
    /\ pc = "data.district"
    /\ di <= Len(districts)
    /\ \/ /\ raised' = "OSError"
          /\ exitStatus' = "exception"
          /\ pc' = "off"
          /\ UNCHANGED <<constituencies, ai, stats, enums>>
       \/ /\ \E ok \in BOOLEAN :
               constituencies' = IF ok THEN ACOptions(CurDistrict.value) ELSE <<>>
          /\ enums' = Append(enums, Enum("constituencies", CurDistrict.value,
                                         constituencies' # <<>>, Len(constituencies'), 1))
          /\ stats' = [stats EXCEPT !.constituencies = @ + Len(constituencies')]
          /\ ai' = 1
          /\ pc' = "data.ac"
          /\ UNCHANGED <<raised, exitStatus>>
    /\ UNCHANGED <<envVars, progress, districts, di, parts, pi, runs, loaded, startFile,
                   fetched, visited, lastLeaf, resume, runClean, prevClean, summaries,
                   retryVars, nameVars, argVars, dataVars>>

\* for ac in constituencies: get_parts posts to its endpoints and returns a
\* list or [].
DataProcessAC ==
    /\ pc = "data.ac"
    /\ ai <= Len(constituencies)
    /\ \E ok \in BOOLEAN : parts' = IF ok THEN PartOptions(CurAC.value) ELSE <<>>
    /\ enums' = Append(enums, Enum("parts", CurAC.value, parts' # <<>>, Len(parts'), 1))
    /\ stats' = [stats EXCEPT !.parts = @ + Len(parts')]
    /\ pi' = 1
    /\ pc' = "data.part"
    /\ UNCHANGED <<envVars, progress, districts, di, constituencies, ai, raised,
                   runs, exitStatus, loaded, startFile, fetched, visited, lastLeaf, resume,
                   runClean, prevClean, summaries, retryVars, nameVars, argVars, dataVars>>

\* The constituency loop of a district is exhausted: next district.
DataEndACs ==
    /\ pc = "data.ac"
    /\ ai > Len(constituencies)
    /\ di' = di + 1
    /\ pc' = "data.district"
    /\ UNCHANGED <<envVars, progress, stats, districts, constituencies, ai, parts, pi,
                   raised, histVars, retryVars, nameVars, argVars, dataVars>>

\* for part in parts: download_file asks get_page for the part's url.
DataPart ==
    /\ pc = "data.part"
    /\ pi <= Len(parts)
    /\ CallGetPage("download_file")
    /\ pc' = "data.partfile"
    /\ UNCHANGED <<envVars, progress, stats, districts, di, constituencies, ai, parts, pi,
                   raised, histVars, nameVars, argVars, dataVars>>

\* download_file returns True or False and the outcome is counted.
DataPartBack ==
    /\ pc = "data.partfile"
    /\ GetPageDone
    /\ \E success \in IF rpc = "returned" THEN BOOLEAN ELSE {FALSE} :
         /\ stats' = CountOutcome(stats, success)
         /\ fetched' = Append(fetched,
                              [key |-> <<CurDistrict.value, CurAC.value, CurPart.value>>,
                               ok |-> success])
    /\ pi' = pi + 1
    /\ pc' = "data.part"
    /\ GetPageTaken
    /\ UNCHANGED <<envVars, progress, districts, di, constituencies, ai, parts,
                   raised, runs, exitStatus, loaded, startFile, visited, lastLeaf, resume,
                   runClean, prevClean, summaries, enums, nameVars, argVars, dataVars>>

\* The part loop of a constituency is exhausted: next constituency.
DataEndParts ==
    /\ pc = "data.part"
    /\ pi > Len(parts)
    /\ ai' = ai + 1
    /\ pc' = "data.ac"
    /\ UNCHANGED <<envVars, progress, stats, districts, di, constituencies, parts, pi,
                   raised, histVars, retryVars, nameVars, argVars, dataVars>>

\* The district loop is exhausted: print_stats, and download_all returns.
DataPrintStats ==
    /\ pc = "data.district"
    /\ di > Len(districts)
    /\ summaries' = summaries + 1
    /\ exitStatus' = "normal"
    /\ pc' = "off"
    /\ UNCHANGED <<envVars, progress, stats, districts, di, constituencies, ai, parts, pi,
                   raised, runs, loaded, startFile, fetched, visited, lastLeaf, resume,
                   runClean, prevClean, enums, retryVars, nameVars, argVars, dataVars>>

InitData ==
    /\ file = NoFile
    /\ reloadResets = FALSE
    /\ portal = SmallPortal
    /\ InitRest
    /\ RetryIdle
    /\ NamesIdle

NextData ==
    \/ DataConstruct
    \/ DataGetDistricts
    \/ DataDistrictsBack
    \/ DataScrape
    \/ DataScrapeBack
    \/ DataLink
    \/ DataLinkBack
    \/ DataLinksEnd
    \/ DataProcessDistrict
    \/ DataProcessAC
    \/ DataEndACs
    \/ DataPart
    \/ DataPartBack
    \/ DataEndParts
    \/ DataPrintStats
    \/ GetPageTry
    \/ GetPageExcept

SpecData == InitData /\ [][NextData]_vars

(***************************************************************************)
(* Claims about the final summary.                                         *)
(***************************************************************************)
\* C21: a run that has ended (by returning, the no-districts return
\* included, or by an exception) has printed the final summary exactly
\* once, and a run that is still going has not printed it.
C21_SummaryOnce ==
    /\ EndOfRun => summaries = 1
    /\ exitStatus = "running" => summaries = 0


(***************************************************************************)
(* Termination.  One run of either downloader on a first-run ledger, the   *)
(* process never killed.  The program is a single thread whose blocking    *)
(* calls all return (requests and the driver's waits have timeouts, sleeps *)
(* are finite), so a process that can take a step takes one: weak fairness *)
(* on the steps of the running process.                                    *)
(***************************************************************************)
DataConstructOnce == runs = 0 /\ DataConstruct

StepLive ==
    \/ StartDownload
    \/ ProcessDistrict
    \/ EndDistricts
    \/ ProcessAC
    \/ EndACs
    \/ FetchPart
    \/ SaveOpen
    \/ SaveWrite
    \/ ReloadPage
    \/ Finally
    \/ DataGetDistricts
    \/ DataDistrictsBack
    \/ DataScrape
    \/ DataScrapeBack
    \/ DataLink
    \/ DataLinkBack
    \/ DataLinksEnd
    \/ DataProcessDistrict
    \/ DataProcessAC
    \/ DataEndACs
    \/ DataPart
    \/ DataPartBack
    \/ DataEndParts
    \/ DataPrintStats
    \/ GetPageTry
    \/ GetPageExcept

NextLive ==
    \/ ConstructOnce
    \/ DataConstructOnce
    \/ StepLive

SpecLive == Init /\ [][NextLive]_vars /\ WF_vars(StepLive)

SeleniumPositions == {"main", "district", "ac", "part", "save", "write", "finally"}

DataPositions == {"data.main", "data.districts", "data.scrape", "data.page",
                  "data.link", "data.linkfile", "data.district", "data.ac",
                  "data.part", "data.partfile"}

\* C24: a get_page call makes at most max_retries attempts and ends, by
\* returning or raising; a run fetches no more than once per leaf of the
\* hierarchy; a Selenium run reaches its end with the summary printed and
\* the browser closed, and an ASDDDownloader run reaches its end, whatever
\* the fetches and enumerations do.
C24_Terminates ==
    /\ [](Len(outcomes) <= maxRetries)
    /\ [](Len(fetched) <= Len(LeafOrder))
    /\ (rpc = "try") ~> GetPageDone
    /\ (pc \in SeleniumPositions) ~> (pc = "off" /\ summaries = 1 /\ form = "none")
    /\ (pc \in DataPositions) ~> (pc = "off" /\ exitStatus \in {"normal", "exception"})

\* C24 witness: a run has gone through the whole hierarchy and ended, some
\* fetch having failed and the last get_page call having used all its
\* attempts.
C24_Witness ==
    /\ pc = "off" /\ exitStatus = "normal"
    /\ Len(fetched) = Len(LeafOrder)
    /\ FailedFetches # {}
    /\ Len(outcomes) = DefaultMaxRetries

====
